---- MODULE Spec2Model ----
(***************************************************************************)
(* Model of intracursus_import/import_scores.py: the import of the scores *)
(* of a second sheet into an Intracursus sheet.                            *)
(*                                                                         *)
(* A string is a sequence of one-character strings, so that casefold,      *)
(* translate and split act on characters as they do in Python.  A cell of  *)
(* a sheet is a record [t, v]: t is the Python type of the value ("str",   *)
(* "int" or "float") and v the value.                                      *)
(***************************************************************************)
EXTENDS Integers, Sequences, FiniteSets, TLC

VARIABLES
    n_sheets,           \* len(all_data)
    fingerprint,        \* whether the six leading rows of the first sheet are those of Intracursus
    wb,                 \* the rows sheet[6:] of the first sheet as read from the file
    intracursus_sheet,  \* the same rows, updated in place by fill_scores
    other_sheet,        \* the rows of the second sheet
    intracursus_data,   \* IntracursusData(ids, names, scores)
    other_data,         \* OtherData(ids, names, scores)
    others,             \* translate_names: the names of the other sheet still to match
    intracursus,        \* translate_names: the Intracursus names still to match
    found,              \* translate_names: dict {name in intracursus sheet: name in other sheet}
    to_be_verified,     \* translate_names: the entries of found due to partial_match
    fn,                 \* translate_names: index of matching_function in (match, contain, partial_match)
    others_todo,        \* the names `for other in others` has not reached yet
    other,              \* the loop variable `other`
    intra_todo,         \* the names `for intra in intracursus` has not reached yet
    history,            \* every execution of found[intra] = other, with its pass
    i,                  \* fill_scores: index of the next row to update (1 is sheet[6])
    error,              \* the exception that ended the run, or NoError
    saved,              \* the rows given to pyexcel_ods3.save_data, or NotSaved
    pc                  \* position in import_scores

vars == <<n_sheets, fingerprint, wb, intracursus_sheet, other_sheet, intracursus_data,
          other_data, others, intracursus, found, to_be_verified, fn, others_todo,
          other, intra_todo, history, i, error, saved, pc>>

-----------------------------------------------------------------------------
(* Bounds of the model. *)

\* Largest number of student rows in the Intracursus sheet.
MaxIntra == 3
\* Largest number of data rows in the other sheet.
MaxOther == 3

-----------------------------------------------------------------------------
(* Strings and cells. *)

StrCell(s) == [t |-> "str", v |-> s]
FloatCell(x) == [t |-> "float", v |-> x]
IntCell(n) == [t |-> "int", v |-> n]

IsStr(c) == c.t = "str"
IsNumber(c) == c.t \in {"int", "float"}
\* val == s, for a cell val and a string s
StrEq(c, s) == IsStr(c) /\ c.v = s

Range(f) == {f[x] : x \in DOMAIN f}
EmptyDict == [x \in {} |-> x]

RECURSIVE IndexOf(_, _, _)
\* str.find: the first position of character c in s from position k on, 0 if none
IndexOf(s, c, k) ==
    IF k > Len(s) THEN 0
    ELSE IF s[k] = c THEN k
    ELSE IndexOf(s, c, k + 1)

\* The two strings str.maketrans is given.
CONVERSION ==
    << <<"é", "è", "ê", "ë", "à", "â", "ô", "ö", "ù", "û", "ü", "î", "ï", "ç", "ñ", "-", "_">>,
       <<"e", "e", "e", "e", "a", "a", "o", "o", "u", "u", "u", "i", "i", "c", "n", " ", " ">> >>

\* TABLE[c], for str.translate: characters outside the table are kept.
TABLE(c) ==
    LET k == IndexOf(CONVERSION[1], c, 1)
    IN IF k = 0 THEN c ELSE CONVERSION[2][k]

\* The cased characters of the model's alphabet, and their casefolded forms.
UpperCase ==
    <<"A", "B", "C", "D", "E", "F", "G", "H", "I", "J", "K", "L", "M", "N", "O", "P", "Q",
      "R", "S", "T", "U", "V", "W", "X", "Y", "Z", "É">>
LowerCase ==
    <<"a", "b", "c", "d", "e", "f", "g", "h", "i", "j", "k", "l", "m", "n", "o", "p", "q",
      "r", "s", "t", "u", "v", "w", "x", "y", "z", "é">>

\* str.casefold, character by character
casefold(s) ==
    [k \in 1..Len(s) |->
        LET u == IndexOf(UpperCase, s[k], 1)
        IN IF u = 0 THEN s[k] ELSE LowerCase[u]]

\* str.translate(TABLE)
translate(s) == [k \in 1..Len(s) |-> TABLE(s[k])]

RECURSIVE SplitFrom(_, _, _)
\* str.split() as a set: the maximal runs of non-blank characters of s from
\* position k on, `word` being the run read so far
SplitFrom(s, k, word) ==
    IF k > Len(s) THEN (IF word = <<>> THEN {} ELSE {word})
    ELSE IF s[k] = " "
         THEN (IF word = <<>> THEN {} ELSE {word}) \cup SplitFrom(s, k + 1, <<>>)
         ELSE SplitFrom(s, k + 1, Append(word, s[k]))

split(s) == SplitFrom(s, 1, <<>>)

\* str.strip() is not empty
NotBlank(s) == \E k \in 1..Len(s) : s[k] # " "

RECURSIVE JoinFrom(_, _)
\* " ".join(vals[k:])
JoinFrom(vals, k) ==
    IF k > Len(vals) THEN <<>>
    ELSE IF k = Len(vals) THEN vals[k]
    ELSE vals[k] \o <<" ">> \o JoinFrom(vals, k + 1)

join(vals) == JoinFrom(vals, 1)

-----------------------------------------------------------------------------
(* The matching functions. *)

Sabrina == <<"S", "a", "b", "r", "i", "n", "a">>
Alkissi == <<"A", "l", "k", "i", "s", "s", "i">>
Dupont == <<"D", "u", "p", "o", "n", "t">>

\* The students of Intracursus: the cells of columns 1 and 2.
IntraPool ==
    << <<Sabrina, Alkissi>>,
       <<<<"Z", "o", "é">>, Dupont>>,
       <<<<"L", "i">>, <<"N", "a">>>> >>

\* The names of the other sheet.
OtherPool ==
    << Alkissi,
       <<"D", "U", "P", "O", "N", "T", " ", "Z", "o", "e">>,
       <<"Z", "o", "e", "_", "D", "u", "p", "o", "n", "t">>,
       Alkissi \o <<" ">> \o Dupont,
       <<"n", "a", " ", "l", "i">>,
       <<"P", "a", "u", "l", " ", "M", "a", "r", "t", "i", "n">> >>

\* The names the model's files hold: those of Intracursus, as
\* get_intracursus_data builds them, and those of the other sheet.
Names ==
    {IntraPool[k][1] \o <<" ">> \o IntraPool[k][2] : k \in DOMAIN IntraPool}
    \cup Range(OtherPool)

\* The function that @cache wraps.
norm_wrapped(name) == split(translate(casefold(name)))

\* The cache of norm, here filled for every name of the model's files.
norm_cache == [name \in Names |-> norm_wrapped(name)]

norm(name) == IF name \in DOMAIN norm_cache THEN norm_cache[name] ELSE norm_wrapped(name)

match(name1, name2) == norm(name1) = norm(name2)

\* contain with one of its two inclusions forgotten
contain_one_way(name1, name2) == norm(name2) \subseteq norm(name1)

contain(name1, name2) ==
    LET s1 == norm(name1)
        s2 == norm(name2)
    IN s1 \subseteq s2 \/ s2 \subseteq s1

\* The least length of a word that partial_match counts.
MinWordLen == 3

\* partial_match asking for a second common word
partial_match_two_words(name1, name2) ==
    Cardinality({word \in norm(name1) \cap norm(name2) : Len(word) >= MinWordLen}) >= 2

partial_match(name1, name2) ==
    LET intersection == norm(name1) \cap norm(name2)
        count == Cardinality({word \in intersection : Len(word) >= MinWordLen})
    IN count >= 1

\* The tuple the passes of translate_names run through.
MatchingFunctions == <<"match", "contain", "partial_match">>

\* matching_function(name1, name2), for matching_function = MatchingFunctions[k]
matching_function(k, name1, name2) ==
    CASE MatchingFunctions[k] = "match" -> match(name1, name2)
      [] MatchingFunctions[k] = "contain" -> contain(name1, name2)
      [] MatchingFunctions[k] = "partial_match" -> partial_match(name1, name2)

-----------------------------------------------------------------------------
(* The extractors. *)

\* len([val for val in row if str(val).strip()]) > 0
RowHasContent(row) ==
    \E k \in 1..Len(row) : IsNumber(row[k]) \/ NotBlank(row[k].v)

\* The rows of find_first_data_row's loop that hold something.
ContentRows(sheet) == {k \in 1..Len(sheet) : RowHasContent(sheet[k])}

\* find_first_data_row, when some row holds something: the index (from 1) of
\* the first row of data, the row after the first row with content when that
\* row holds only strings
find_first_data_row(sheet) ==
    LET k == CHOOSE m \in ContentRows(sheet) : \A n \in ContentRows(sheet) : m <= n
    IN IF \A c \in 1..Len(sheet[k]) : IsStr(sheet[k][c]) THEN k + 1 ELSE k

\* Identifiers are the integers above this number.
IdThreshold == 1000000

IsIdColumn(column) ==
    \A k \in 1..Len(column) : column[k].t = "int" /\ column[k].v > IdThreshold
IsNameColumn(column) ==
    ~IsIdColumn(column) /\ \A k \in 1..Len(column) : IsStr(column[k])
IsScoreColumn(column) ==
    ~IsIdColumn(column) /\ ~IsNameColumn(column)
    /\ \E k \in 1..Len(column) : IsNumber(column[k])

\* The last element of a sequence of columns, [] when there is none.
LastOr(columns) == IF columns = <<>> THEN <<>> ELSE columns[Len(columns)]

\* get_other_data, from the first row of data on
get_other_data(sheet) ==
    LET first == find_first_data_row(sheet)
        rows == SubSeq(sheet, first, Len(sheet))
        width == IF rows = <<>> THEN 0
                 ELSE CHOOSE w \in {Len(rows[r]) : r \in 1..Len(rows)} :
                        \A r \in 1..Len(rows) : w <= Len(rows[r])
        \* list(zip(*other_sheet[i:]))
        columns == [c \in 1..width |-> [r \in 1..Len(rows) |-> rows[r][c]]]
        names_columns == SelectSeq(columns, IsNameColumn)
        ids_column == LastOr(SelectSeq(columns, IsIdColumn))
        ids == [r \in 1..Len(ids_column) |-> ids_column[r].v]
        scores == LastOr(SelectSeq(columns, IsScoreColumn))
        names == IF names_columns = <<>> THEN <<>>
                 ELSE [r \in 1..Len(rows) |->
                          join([c \in 1..Len(names_columns) |-> names_columns[c][r].v])]
    IN [ids |-> ids, names |-> names, scores |-> scores]

\* get_intracursus_data, of the rows sheet[6:]
get_intracursus_data(rows) ==
    [ids |-> [r \in 1..Len(rows) |-> rows[r][1].v],
     names |-> [r \in 1..Len(rows) |-> rows[r][2].v \o <<" ">> \o rows[r][3].v],
     scores |-> [r \in 1..Len(rows) |-> rows[r][4]]]

\* dict(zip(keys, values)): the position of the value of `key`, 0 for a KeyError
DictZip(keys, values, key) ==
    LET n == IF Len(keys) <= Len(values) THEN Len(keys) ELSE Len(values)
        at == {k \in 1..n : keys[k] = key}
    IN IF at = {} THEN 0 ELSE CHOOSE k \in at : \A m \in at : m <= k

ABI == <<"A", "B", "I">>

-----------------------------------------------------------------------------
(* The files the model reads. *)

\* The identifier of the k-th student of Intracursus.
IdOf(k) == 21900000 + k

\* The identifiers of the other sheet.
OtherIds == {IdOf(1), IdOf(2), IdOf(9)}

\* What the score column of Intracursus holds before the import.
ExistingScores == {StrCell(<<>>), FloatCell(12)}

\* The score of the k-th row of the other sheet.
OtherScore(k) ==
    IF k = 2 THEN StrCell(<<"#", "N", "/", "A">>) ELSE FloatCell(10 + k)

\* The increasing (strictly, or not) sequences of 1..n of length 1..len.
Increasing(n, len, strictly) ==
    {s \in UNION {[1..m -> 1..n] : m \in 1..len} :
        \A a, b \in DOMAIN s : a < b => IF strictly THEN s[a] < s[b] ELSE s[a] <= s[b]}

IntraSheets ==
    {[r \in DOMAIN s |-> <<IntCell(IdOf(r)), StrCell(IntraPool[s[r]][1]),
                           StrCell(IntraPool[s[r]][2]), sc[r]>>] :
        <<s, sc>> \in {p \in Increasing(Len(IntraPool), MaxIntra, TRUE)
                              \X UNION {[1..m -> ExistingScores] : m \in 1..MaxIntra} :
                          DOMAIN p[1] = DOMAIN p[2]}}

BlankRow == <<StrCell(<<>>), StrCell(<<" ">>)>>
HeaderRow == <<StrCell(<<"N", "o", "m">>), StrCell(<<"N", "o", "t", "e">>)>>

\* The sheets with a column of names and a column of scores.
NameSheets ==
    {[r \in DOMAIN s |-> <<StrCell(OtherPool[s[r]]), OtherScore(r)>>] :
        s \in Increasing(Len(OtherPool), MaxOther, FALSE)}

\* The sheets with a column of identifiers too.
IdSheets ==
    {[r \in DOMAIN s |-> <<IntCell(s[r]), StrCell(OtherPool[r]), OtherScore(r)>>] :
        s \in {t \in UNION {[1..m -> OtherIds] : m \in 1..MaxOther} :
                  \A a, b \in DOMAIN t : a < b => t[a] <= t[b]}}

OtherSheets ==
    {<<>>, <<BlankRow>>}
    \cup NameSheets \cup IdSheets
    \cup {<<BlankRow, HeaderRow>> \o sheet : sheet \in NameSheets}

-----------------------------------------------------------------------------
(* The run of import_scores. *)

None == <<>>
NoError == [kind |-> "", arg |-> <<>>]
NotSaved == <<>>

Raise(kind, arg) ==
    /\ error' = [kind |-> kind, arg |-> arg]
    /\ pc' = "failed"

\* The state of a run that has read a file of n sheets, the first one with
\* rows `intra`, the second with rows `sheet`.
Read(n, fp, intra, sheet) ==
    /\ n_sheets = n
    /\ fingerprint = fp
    /\ wb = intra
    /\ intracursus_sheet = intra
    /\ other_sheet = sheet
    /\ intracursus_data = [ids |-> <<>>, names |-> <<>>, scores |-> <<>>]
    /\ other_data = [ids |-> <<>>, names |-> <<>>, scores |-> <<>>]
    /\ others = {}
    /\ intracursus = {}
    /\ found = EmptyDict
    /\ to_be_verified = EmptyDict
    /\ fn = 1
    /\ others_todo = {}
    /\ other = None
    /\ intra_todo = {}
    /\ history = {}
    /\ i = 1
    /\ error = NoError
    /\ saved = NotSaved
    /\ pc = "start"

\* A file with one sheet or three, a file whose first sheet is not one of
\* Intracursus, or a file of two sheets to merge.
Init ==
    \/ \E n \in {1, 3}, intra \in IntraSheets : Read(n, TRUE, intra, <<>>)
    \/ \E intra \in IntraSheets, sheet \in NameSheets : Read(2, FALSE, intra, sheet)
    \/ \E intra \in IntraSheets, sheet \in OtherSheets : Read(2, TRUE, intra, sheet)

\* import_scores, from get_data to the call of fill_scores
CheckSheets ==
    /\ pc = "start"
    /\ IF n_sheets <= 1 THEN Raise("NothingToMergeError", <<>>)
       ELSE IF n_sheets > 2 THEN Raise("TooManySheetsError", <<>>)
       ELSE IF ~fingerprint THEN Raise("NotAnIntracursusFileError", <<>>)
       ELSE pc' = "fill_scores" /\ error' = error
    /\ UNCHANGED <<n_sheets, fingerprint, wb, intracursus_sheet, other_sheet,
                   intracursus_data, other_data, others, intracursus, found,
                   to_be_verified, fn, others_todo, other, intra_todo, history, i, saved>>

\* fill_scores: get_intracursus_data and get_other_data
GetData ==
    /\ pc = "fill_scores"
    /\ intracursus_data' = get_intracursus_data(intracursus_sheet)
    /\ IF ContentRows(other_sheet) = {}
       THEN Raise("NothingToMergeError", <<>>) /\ other_data' = other_data
       ELSE /\ other_data' = get_other_data(other_sheet)
            /\ pc' = "update_intracursus_data"
            /\ error' = error
    /\ UNCHANGED <<n_sheets, fingerprint, wb, intracursus_sheet, other_sheet, others,
                   intracursus, found, to_be_verified, fn, others_todo, other,
                   intra_todo, history, i, saved>>

\* [scores[key] for key in wanted], or the KeyError of the first key that the
\* dict lacks; the dict is dict(zip(keys, values)), with "ABI" for the key None
LookUp(wanted, keys, values) ==
    LET missing == {k \in DOMAIN wanted :
                       wanted[k] # None /\ DictZip(keys, values, wanted[k]) = 0}
    IN IF missing # {}
       THEN /\ Raise("KeyError", <<wanted[CHOOSE k \in missing : \A m \in missing : k <= m]>>)
            /\ UNCHANGED intracursus_data
       ELSE /\ intracursus_data' =
                [intracursus_data EXCEPT !.scores =
                    [k \in DOMAIN wanted |->
                        IF wanted[k] = None THEN StrCell(ABI)
                        ELSE values[DictZip(keys, values, wanted[k])]]]
            /\ pc' = "for_score"
            /\ error' = error

\* update_intracursus_data, when other_data.ids is not empty; a key of the dict
\* is written <<id_>>, None being <<>>
JoinByIds ==
    /\ pc = "update_intracursus_data"
    /\ other_data.ids # <<>>
    /\ LookUp([k \in DOMAIN intracursus_data.ids |-> <<intracursus_data.ids[k]>>],
              [k \in DOMAIN other_data.ids |-> <<other_data.ids[k]>>], other_data.scores)
    /\ UNCHANGED <<n_sheets, fingerprint, wb, intracursus_sheet, other_sheet, other_data,
                   others, intracursus, found, to_be_verified, fn, others_todo, other,
                   intra_todo, history, i, saved>>

\* Counter(names)[name]
Count(names, name) == Cardinality({k \in 1..Len(names) : names[k] = name})

\* translate_names, to the first pass
TranslateNames ==
    /\ pc = "update_intracursus_data"
    /\ other_data.ids = <<>>
    /\ LET names == other_data.names
           twice == {k \in 1..Len(names) : Count(names, names[k]) > 1}
       IN IF Cardinality(Range(names)) # Len(names)
          THEN LET name == names[CHOOSE k \in twice : \A m \in twice : k <= m]
               IN /\ Raise("DuplicateNamesError", <<name, Count(names, name)>>)
                  /\ UNCHANGED <<others, intracursus, others_todo>>
          ELSE /\ others' = Range(names)
               /\ intracursus' = Range(intracursus_data.names)
               /\ others_todo' = Range(names)
               /\ pc' = "for_other"
               /\ error' = error
    /\ found' = EmptyDict
    /\ to_be_verified' = EmptyDict
    /\ fn' = 1
    /\ UNCHANGED <<n_sheets, fingerprint, wb, intracursus_sheet, other_sheet,
                   intracursus_data, other_data, other, intra_todo, history, i, saved>>

\* for other in others:
ForOther ==
    /\ pc = "for_other"
    /\ \E name \in others_todo :
        /\ other' = name
        /\ others_todo' = others_todo \ {name}
    /\ intra_todo' = intracursus
    /\ pc' = IF intracursus = {} THEN "for_other" ELSE "for_intra"
    /\ UNCHANGED <<n_sheets, fingerprint, wb, intracursus_sheet, other_sheet,
                   intracursus_data, other_data, others, intracursus, found,
                   to_be_verified, fn, history, i, error, saved>>

\* d[key] = value
Put(d, key, value) ==
    [x \in DOMAIN d \cup {key} |-> IF x = key THEN value ELSE d[x]]

\* The assertion left out
assert_skipped(intra) == TRUE

\* assert intra not in found
AssertNotFound(intra) == intra \notin DOMAIN found

\* for intra in intracursus: the body of the loop
ForIntra ==
    /\ pc = "for_intra"
    /\ \E intra \in intra_todo :
        /\ intra_todo' = intra_todo \ {intra}
        /\ IF ~matching_function(fn, other, intra)
           THEN /\ pc' = IF intra_todo' = {} THEN "for_other" ELSE "for_intra"
                /\ UNCHANGED <<found, to_be_verified, history, error>>
           ELSE IF ~AssertNotFound(intra)
           THEN /\ Raise("AssertionError", <<intra>>)
                /\ UNCHANGED <<found, to_be_verified, history>>
           ELSE /\ found' = Put(found, intra, other)
                /\ to_be_verified' =
                      IF MatchingFunctions[fn] = "partial_match"
                      THEN Put(to_be_verified, intra, other)
                      ELSE to_be_verified
                /\ history' = history \cup {[intra |-> intra, other |-> other, pass |-> fn]}
                /\ pc' = IF intra_todo' = {} THEN "for_other" ELSE "for_intra"
                /\ error' = error
    /\ UNCHANGED <<n_sheets, fingerprint, wb, intracursus_sheet, other_sheet,
                   intracursus_data, other_data, others, intracursus, fn, others_todo,
                   other, i, saved>>

\* others -= set(found): the keys taken for the values
RemainingOthersByKey == others \ DOMAIN found
\* intracursus left as it is at the end of a pass
IntracursusKept == intracursus

\* others -= set(found.values())
RemainingOthers == others \ Range(found)
\* intracursus -= set(found)
RemainingIntracursus == intracursus \ DOMAIN found

\* The end of a pass, and the next matching function.
EndPass ==
    /\ pc = "for_other"
    /\ others_todo = {}
    /\ others' = RemainingOthers
    /\ intracursus' = RemainingIntracursus
    /\ IF fn < Len(MatchingFunctions)
       THEN /\ fn' = fn + 1
            /\ others_todo' = others'
            /\ pc' = pc
       ELSE /\ pc' = "for_name"
            /\ UNCHANGED <<fn, others_todo>>
    /\ UNCHANGED <<n_sheets, fingerprint, wb, intracursus_sheet, other_sheet,
                   intracursus_data, other_data, found, to_be_verified, other,
                   intra_todo, history, i, error, saved>>

\* for name in others: raise UnknownNameError
RaiseUnknownName ==
    /\ pc = "for_name"
    /\ \E name \in others : Raise("UnknownNameError", <<name>>)
    /\ UNCHANGED <<n_sheets, fingerprint, wb, intracursus_sheet, other_sheet,
                   intracursus_data, other_data, others, intracursus, found,
                   to_be_verified, fn, others_todo, other, intra_todo, history, i, saved>>

\* translate_names returns, and update_intracursus_data looks the scores up
ScoresByName ==
    /\ pc = "for_name"
    /\ others = {}
    /\ LookUp([k \in DOMAIN intracursus_data.names |->
                  IF intracursus_data.names[k] \in DOMAIN found
                  THEN found[intracursus_data.names[k]]
                  ELSE None],
              other_data.names, other_data.scores)
    /\ UNCHANGED <<n_sheets, fingerprint, wb, intracursus_sheet, other_sheet, other_data,
                   others, intracursus, found, to_be_verified, fn, others_todo, other,
                   intra_todo, history, i, saved>>

\* score.startswith("#")
StartsWithHash(score) == IsStr(score) /\ score.v # <<>> /\ score.v[1] = "#"

\* The condition under which fill_scores leaves the score of a row as it is.
KeepsScore(row, score) == StrEq(row[1], <<>>) /\ StrEq(score, ABI)

\* fill_scores: the body of the loop, for row i
FillRow ==
    /\ pc = "for_score"
    /\ i <= Len(intracursus_data.scores)
    /\ LET new == intracursus_data.scores[i]
           score == IF StartsWithHash(new) THEN StrCell(ABI) ELSE new
           row == intracursus_sheet[i]
           updated == IF ~KeepsScore(row, score) THEN [row EXCEPT ![4] = score] ELSE row
           name == row[2].v \o <<" ">> \o row[3].v
       IN intracursus_sheet' =
             [intracursus_sheet EXCEPT ![i] =
                 IF name \in DOMAIN to_be_verified
                 THEN Append(updated, StrCell(to_be_verified[name] \o <<" ", "?">>))
                 ELSE updated]
    /\ i' = i + 1
    /\ UNCHANGED <<n_sheets, fingerprint, wb, other_sheet, intracursus_data, other_data,
                   others, intracursus, found, to_be_verified, fn, others_todo, other,
                   intra_todo, history, error, saved, pc>>

\* save_data called from within the loop of fill_scores
AtSaveInLoop == pc = "for_score"

\* Where import_scores calls save_data: after fill_scores has returned.
AtSave == pc = "for_score" /\ i > Len(intracursus_data.scores)

\* pyexcel_ods3.save_data, of the first sheet alone
Save ==
    /\ AtSave
    /\ saved' = intracursus_sheet
    /\ pc' = "done"
    /\ UNCHANGED <<n_sheets, fingerprint, wb, intracursus_sheet, other_sheet,
                   intracursus_data, other_data, others, intracursus, found,
                   to_be_verified, fn, others_todo, other, intra_todo, history, i, error>>

Next ==
    \/ CheckSheets
    \/ GetData
    \/ JoinByIds
    \/ TranslateNames
    \/ ForOther
    \/ ForIntra
    \/ EndPass
    \/ RaiseUnknownName
    \/ ScoresByName
    \/ FillRow
    \/ Save

Spec == Init /\ [][Next]_vars

-----------------------------------------------------------------------------
(* What the properties below speak of. *)

\* translate_names was called and has returned.
Returned == other_data.ids = <<>> /\ pc \in {"for_score", "done"}

\* fill_scores has returned.
Filled == AtSave \/ pc = "done"

\* The dict d, as the set of its items.
Items(d) == {<<x, d[x]>> : x \in DOMAIN d}

\* The index of a matching function in MatchingFunctions.
PassOf(f) == CHOOSE k \in DOMAIN MatchingFunctions : MatchingFunctions[k] = f

SabrinaAlkissi == Sabrina \o <<" ">> \o Alkissi

-----------------------------------------------------------------------------
(* C1. Default-score policy of fill_scores: once fill_scores has returned,  *)
(* every row of Intracursus without a counterpart in the other sheet (its   *)
(* new score is the default "ABI") keeps the score it had when that score   *)
(* was not empty, and holds "ABI" when it was empty.                        *)

NoCounterpart(r) == intracursus_data.names[r] \notin DOMAIN found

C1_DefaultScorePolicy ==
    (Filled /\ other_data.ids = <<>>) =>
        \A r \in DOMAIN wb :
            NoCounterpart(r) =>
                IF ~StrEq(wb[r][4], <<>>)
                THEN intracursus_sheet[r][4] = wb[r][4]
                ELSE StrEq(intracursus_sheet[r][4], ABI)

-----------------------------------------------------------------------------
(* C2. When the other sheet carries identifiers, update_intracursus_data    *)
(* ends without error and gives "ABI" to every identifier of Intracursus    *)
(* that the other sheet lacks.                                              *)

C2_AbsentIdGetsABI ==
    (other_data.ids # <<>> /\ pc # "update_intracursus_data") =>
        /\ error = NoError
        /\ \A r \in DOMAIN intracursus_data.ids :
              intracursus_data.ids[r] \notin Range(other_data.ids)
                  => StrEq(intracursus_data.scores[r], ABI)

-----------------------------------------------------------------------------
(* C3. When translate_names returns, found is injective: no name of the     *)
(* other sheet is the value of two names of Intracursus, and found holds no *)
(* more entries than the smaller of the two sets of names.                  *)

Smaller(a, b) == IF a <= b THEN a ELSE b

C3_MappingInjective ==
    Returned =>
        /\ \A x, y \in DOMAIN found : found[x] = found[y] => x = y
        /\ Cardinality(DOMAIN found)
              <= Smaller(Cardinality(Range(other_data.names)),
                         Cardinality(Range(intracursus_data.names)))

-----------------------------------------------------------------------------
(* C4. With "Sabrina Alkissi" alone in Intracursus and "Alkissi" alone in   *)
(* the other sheet (no identifiers), as claimed: the pair is found in the   *)
(* pass of partial_match only, is to be verified, and the row ends with the *)
(* cell "Alkissi ?".                                                        *)

C4_Input ==
    /\ pc = "done"
    /\ other_data.ids = <<>>
    /\ intracursus_data.names = <<SabrinaAlkissi>>
    /\ other_data.names = <<Alkissi>>

C4_PartialPassOnly ==
    C4_Input =>
        /\ history = {[intra |-> SabrinaAlkissi, other |-> Alkissi,
                       pass |-> PassOf("partial_match")]}
        /\ Items(to_be_verified) = {<<SabrinaAlkissi, Alkissi>>}
        /\ saved[1] = Append(wb[1], StrCell(Alkissi \o <<" ", "?">>))

(* C4, amended: on that input the pair is found in the pass of contain      *)
(* (the words of "Alkissi" are among those of "Sabrina Alkissi"), nothing   *)
(* is to be verified, and the row gets the score and no further cell.       *)
C4_SubsetPassNoMarker ==
    C4_Input =>
        /\ history = {[intra |-> SabrinaAlkissi, other |-> Alkissi,
                       pass |-> PassOf("contain")]}
        /\ to_be_verified = EmptyDict
        /\ saved[1] = [wb[1] EXCEPT ![4] = other_data.scores[1]]

C4_Witness == C4_Input /\ saved # NotSaved

-----------------------------------------------------------------------------
(* C5. For every name of the other sheet and every name of Intracursus that *)
(* translate_names compares: match implies contain and partial_match, and   *)
(* contain implies partial_match.                                           *)

C5_Monotonic ==
    \A o \in others, n \in intracursus :
        /\ match(o, n) => contain(o, n) /\ partial_match(o, n)
        /\ contain(o, n) => partial_match(o, n)

\* The set of words that is included in the other one, when contain holds.
Included(name1, name2) ==
    IF norm(name1) \subseteq norm(name2) THEN norm(name1) ELSE norm(name2)

(* C5, amended: match implies contain; and when contain holds,              *)
(* partial_match holds exactly when the included set of words holds a word  *)
(* of three characters or more.                                             *)
C5_MonotonicOnLongWords ==
    \A o \in others, n \in intracursus :
        /\ match(o, n) => contain(o, n)
        /\ contain(o, n) =>
              (partial_match(o, n) <=> \E w \in Included(o, n) : Len(w) >= MinWordLen)

C5_Witness ==
    /\ pc = "for_intra"
    /\ \E n \in intracursus : match(other, n) /\ partial_match(other, n)
    /\ \E o \in others, n \in intracursus : contain(o, n) /\ ~match(o, n)

-----------------------------------------------------------------------------
(* C6. The names of the other sheet being distinct: an UnknownNameError     *)
(* names a name of the other sheet that found does not hold; after the      *)
(* three passes `others` is what found does not hold; and when              *)
(* translate_names returns, every name of the other sheet is a value of     *)
(* found.                                                                   *)

Unmatched == Range(other_data.names) \ Range(found)

C6_UnmatchedNameRaises ==
    /\ error.kind = "UnknownNameError" => error.arg[1] \in Unmatched
    /\ pc = "for_name" => others = Unmatched
    /\ Returned => Unmatched = {}

C6_Witness ==
    /\ error.kind = "UnknownNameError"
    /\ found # EmptyDict

-----------------------------------------------------------------------------
(* C7. The merged sheet is saved only once the number of sheets and the     *)
(* first sheet were accepted and fill_scores has updated every row; a run   *)
(* that ends with an error has saved nothing.                               *)

C7_SavedOnlyAfterSuccess ==
    /\ saved # NotSaved =>
          /\ n_sheets = 2
          /\ fingerprint
          /\ error = NoError
          /\ Len(intracursus_data.scores) = Len(wb)
          /\ i > Len(wb)
          /\ saved = intracursus_sheet
    /\ error # NoError => saved = NotSaved

C7_Witness == saved # NotSaved /\ to_be_verified # EmptyDict

-----------------------------------------------------------------------------
(* C8. The names of the other sheet being distinct, the assertion           *)
(* `intra not in found` of translate_names never fails.                     *)

C8_AssertionNeverFails == error.kind # "AssertionError"

-----------------------------------------------------------------------------
(* C9. Pass precedence: during a pass, the names paired in earlier passes   *)
(* are in neither pool; every assignment found[intra] = other ever made     *)
(* still stands (no entry is replaced); and to_be_verified holds exactly    *)
(* the entries of found made in the pass of partial_match.                  *)

C9_PassPrecedence ==
    /\ \A h \in history :
          /\ h.pass < fn => h.intra \notin intracursus /\ h.other \notin others
          /\ h.intra \in DOMAIN found /\ found[h.intra] = h.other
    /\ Items(found) = {<<h.intra, h.other>> : h \in history}
    /\ Items(to_be_verified) =
          {<<h.intra, h.other>> : h \in {g \in history : g.pass = PassOf("partial_match")}}

C9_Witness ==
    /\ Returned
    /\ \E h \in history : h.pass = PassOf("partial_match")
    /\ \E h \in history : h.pass < PassOf("partial_match")

-----------------------------------------------------------------------------
(* C10. The outcome of translate_names, computed on the sets of names with  *)
(* no order of iteration: pass k pairs every remaining name of the other    *)
(* sheet with every remaining name of Intracursus that matching function k  *)
(* accepts; a name of Intracursus paired twice in a pass fails the          *)
(* assertion.                                                               *)

RECURSIVE Expected(_, _, _, _)
Expected(k, os, ns, pairs) ==
    IF k > Len(MatchingFunctions)
    THEN [kind |-> IF os = {} THEN "" ELSE "UnknownNameError",
          pairs |-> pairs, unmatched |-> os]
    ELSE LET new == {p \in ns \X os : matching_function(k, p[2], p[1])}
         IN IF \E p, q \in new : p[1] = q[1] /\ p[2] # q[2]
            THEN [kind |-> "AssertionError", pairs |-> pairs, unmatched |-> os]
            ELSE Expected(k + 1, os \ {p[2] : p \in new}, ns \ {p[1] : p \in new},
                          pairs \cup {<<p[1], p[2], k>> : p \in new})

ExpectedOutcome ==
    Expected(1, Range(other_data.names), Range(intracursus_data.names), {})

\* translate_names has ended, with a mapping or with one of its errors.
Translated ==
    \/ Returned
    \/ error.kind \in {"UnknownNameError", "AssertionError"}

\* The mappings and the kind of error are those of ExpectedOutcome.
SameMappingsAndKind ==
    /\ error.kind = ExpectedOutcome.kind
    /\ Returned =>
          /\ Items(found) = {<<p[1], p[2]>> : p \in ExpectedOutcome.pairs}
          /\ Items(to_be_verified) =
                {<<p[1], p[2]>> : p \in {q \in ExpectedOutcome.pairs :
                                            q[3] = PassOf("partial_match")}}

(* C10, as claimed: whatever the order in which the two sets are iterated,  *)
(* the mappings returned, or the kind of the error and the name it reports, *)
(* are the same: the name of an UnknownNameError is a function of the two   *)
(* lists of names.                                                          *)
C10_Deterministic ==
    Translated =>
        /\ SameMappingsAndKind
        /\ error.kind = "UnknownNameError" =>
              error.arg[1] = CHOOSE name \in ExpectedOutcome.unmatched : TRUE

(* C10, amended: whatever the order of iteration, the mappings returned and *)
(* the kind of the error are the same; the name an UnknownNameError reports *)
(* is one of the unmatched names, any of them.                              *)
C10_DeterministicButName ==
    Translated =>
        /\ SameMappingsAndKind
        /\ error.kind = "UnknownNameError" =>
              error.arg[1] \in ExpectedOutcome.unmatched

C10_Witness ==
    /\ error.kind = "UnknownNameError"
    /\ Cardinality(ExpectedOutcome.unmatched) >= 2
    /\ ExpectedOutcome.pairs # {}

====
